---- MODULE Spec2Model ----
(***************************************************************************)
(* Model of src/firefox_bookmarks_validator.py: bookmark extraction from   *)
(* places.sqlite / the jsonlz4 snapshot, URL validation, and the guarded   *)
(* deletion of bookmarks from the live places.sqlite.                      *)
(*                                                                         *)
(* Python values are represented as follows.                               *)
(*   - an optional value is a set: None is {} and a value v is {v};        *)
(*   - a string the code inspects character by character (a URL, the       *)
(*     process listing) is a sequence of one-character strings;            *)
(*   - a file is a record with a "kind" field; the profile directory is a  *)
(*     function from file names to files.                                  *)
(***************************************************************************)
EXTENDS Integers, Sequences, FiniteSets, TLC

VARIABLES
    fs,                 \* the profile directory: file name -> file content
    pc,                 \* position of the running program / caller
    bookmarks,          \* main: the extracted records
    using_places_db,    \* main: TRUE when records came from places.sqlite
    idx,                \* main: index (1-based) of the next record to validate
    invalid_bookmarks,  \* main: accumulated invalid records
    processed_count,    \* main: records counted as processed
    call,               \* the last function call: inputs, pre-state, result
    vu,                 \* validate_url under test: inputs and result
    handled,            \* history: what happened to each record of the loop
    strategies,         \* history: the extraction functions main has called
    last_passed         \* history: the last remove_bookmarks call that passed
                        \* its preconditions: the store before it, and
                        \* whether its backup copy completed

vars == <<fs, pc, bookmarks, using_places_db, idx, invalid_bookmarks,
          processed_count, call, vu, handled, strategies, last_passed>>

-----------------------------------------------------------------------------
(* Bounds of the model *)

\* longest request list handed directly to remove_bookmarks
MaxReq == 2

-----------------------------------------------------------------------------
(* Python values *)

None == {}
Some(v) == {v}
Get(o) == CHOOSE v \in o : TRUE

\* str.lower() on the characters that occur in the model
UpperChars == <<"F", "H", "T", "P", "E", "X">>
LowerChars == <<"f", "h", "t", "p", "e", "x">>
lower_char(c) ==
    IF \E k \in 1..Len(UpperChars) : UpperChars[k] = c
    THEN LowerChars[CHOOSE k \in 1..Len(UpperChars) : UpperChars[k] = c]
    ELSE c
lower(s) == [k \in 1..Len(s) |-> lower_char(s[k])]

\* needle in s
contains(needle, s) ==
    \E k \in 1..(Len(s) - Len(needle) + 1) :
        SubSeq(s, k, k + Len(needle) - 1) = needle

\* s.startswith(prefix)
startswith(s, prefix) ==
    /\ Len(s) >= Len(prefix)
    /\ SubSeq(s, 1, Len(prefix)) = prefix

-----------------------------------------------------------------------------
(* Files of the profile directory *)

places_db == "places.sqlite"
\* variant: the working copy is given the path of the live database
temp_db_is_live == "places.sqlite"
temp_db == "temp_places.sqlite"
backup_db == "places.sqlite.backup"
bookmarks_path == "bookmarkbackups"

Absent == [kind |-> "absent"]
\* a file that exists but is not a readable SQLite database
Garbage == [kind |-> "garbage"]
\* what an interrupted copy leaves behind
Partial == [kind |-> "partial"]
Database(b, p) == [kind |-> "db", moz_bookmarks |-> b, moz_places |-> p]

exists(f, path) == f[path] # Absent

\* variant: an existing destination is kept
copy2_keep_existing(f, src, dst) ==
    IF f[dst] # Absent THEN f ELSE [f EXCEPT ![dst] = f[src]]

\* shutil.copy2(src, dst), completed
copy2(f, src, dst) == [f EXCEPT ![dst] = f[src]]

\* os.remove(path)
remove(f, path) == [f EXCEPT ![path] = Absent]

-----------------------------------------------------------------------------
(* is_firefox_running *)

Systems == {"Windows", "Darwin", "Linux"}

str_sh == <<"s", "h">>
str_firefox == <<"f", "i", "r", "e", "f", "o", "x">>
str_firefox_exe == <<"f", "i", "r", "e", "f", "o", "x", ".", "e", "x", "e">>
str_Firefox_exe == <<"F", "i", "r", "e", "f", "o", "x", ".", "E", "X", "E">>

\* what subprocess.check_output can do: raise, or return a listing
ProcessListings ==
    {[raised |-> TRUE, output |-> <<>>]}
    \cup {[raised |-> FALSE, output |-> o] :
            o \in {str_sh, str_firefox, str_Firefox_exe}}

\* variant: a failing probe is taken to mean "not running"
is_firefox_running_fail_open(system, ps) ==
    IF ps.raised THEN FALSE
    ELSE IF system = "Windows" THEN contains(str_firefox_exe, lower(ps.output))
    ELSE contains(str_firefox, lower(ps.output))

is_firefox_running(system, ps) ==
    IF ps.raised THEN TRUE
    ELSE IF system = "Windows" THEN contains(str_firefox_exe, lower(ps.output))
    ELSE contains(str_firefox, lower(ps.output))

-----------------------------------------------------------------------------
(* remove_bookmarks *)

Ev(name) == [ev |-> name, id |-> None]
EvDelete(bookmark_id) == [ev |-> "DELETE", id |-> bookmark_id]

\* DELETE FROM moz_bookmarks WHERE id = ?   (id = NULL matches no row)
delete_row(rows, bookmark_id) == {r \in rows : Some(r.id) # bookmark_id}

\* variant: the row is looked up by the pair's place_id
delete_one_by_place_id(acc, pair, fails) ==
    IF pair[1] = None
    THEN [acc EXCEPT !.trace = Append(@, Ev("skip"))]
    ELSE IF fails
    THEN [acc EXCEPT !.trace = Append(@, Ev("DELETE_raise"))]
    ELSE [rows |-> delete_row(acc.rows, pair[2]),
          deleted_count |-> acc.deleted_count + 1,
          trace |-> Append(acc.trace, EvDelete(pair[1]))]

\* variant: a pair without bookmark_id is not skipped
delete_one_unchecked(acc, pair, fails) ==
    IF fails
    THEN [acc EXCEPT !.trace = Append(@, Ev("DELETE_raise"))]
    ELSE [rows |-> delete_row(acc.rows, pair[1]),
          deleted_count |-> acc.deleted_count + 1,
          trace |-> Append(acc.trace, EvDelete(pair[1]))]

\* One iteration of the loop over bookmark_ids. acc is the state of the open
\* transaction (its view of moz_bookmarks), the counter and the trace;
\* fails says that cursor.execute raises for this row.
delete_one(acc, pair, fails) ==
    IF pair[1] = None
    THEN [acc EXCEPT !.trace = Append(@, Ev("skip"))]
    ELSE IF fails
    THEN [acc EXCEPT !.trace = Append(@, Ev("DELETE_raise"))]
    ELSE [rows |-> delete_row(acc.rows, pair[1]),
          deleted_count |-> acc.deleted_count + 1,
          trace |-> Append(acc.trace, EvDelete(pair[1]))]

\* variant: the first DELETE that raises ends the loop
RECURSIVE delete_loop_abort(_, _, _, _)
delete_loop_abort(acc, bookmark_ids, k, failRows) ==
    IF k > Len(bookmark_ids) THEN acc
    ELSE IF k \in failRows /\ bookmark_ids[k][1] # None
    THEN delete_one(acc, bookmark_ids[k], TRUE)
    ELSE delete_loop_abort(delete_one(acc, bookmark_ids[k], FALSE),
                           bookmark_ids, k + 1, failRows)

RECURSIVE delete_loop(_, _, _, _)
delete_loop(acc, bookmark_ids, k, failRows) ==
    IF k > Len(bookmark_ids) THEN acc
    ELSE delete_loop(delete_one(acc, bookmark_ids[k], k \in failRows),
                     bookmark_ids, k + 1, failRows)

\* the rows a connection to the file sees
rows_of(file) == IF file.kind = "db" THEN file.moz_bookmarks ELSE {}

\* conn.commit(): the transaction's view becomes the file's content
commit(f, rows) ==
    IF f[places_db].kind = "db"
    THEN [f EXCEPT ![places_db].moz_bookmarks = rows]
    ELSE f

\* variant: every DELETE is committed as it is executed
rollback_autocommit(f, rows) == commit(f, rows)

\* leaving the function with the transaction open: the connection is
\* dropped and SQLite rolls the transaction back
rollback(f, rows) == f

\* shutil.copy2 raising: nothing written, a truncated file, or the whole
\* content written before copystat failed
copy2_failed(f, src, dst, how) ==
    CASE how = "copy2_nothing" -> f
      [] how = "copy2_partial" -> [f EXCEPT ![dst] = Partial]
      [] how = "copy2_copystat" -> [f EXCEPT ![dst] = f[src]]

CopyFaults == {"copy2_nothing", "copy2_partial", "copy2_copystat"}
Faults == {"none", "connect", "BEGIN", "commit"} \cup CopyFaults

Result(ret, f, trace, deleted_count) ==
    [ret |-> ret, fs |-> f, trace |-> trace, deleted_count |-> deleted_count]

\* lines 176-212: the try block
remove_bookmarks_try(f, bookmark_ids, env, trace) ==
    IF env.fault \in CopyFaults
    THEN Result(FALSE, copy2_failed(f, places_db, backup_db, env.fault),
                Append(trace, Ev("copy2_raise")), 0)
    ELSE
    LET f1 == copy2(f, places_db, backup_db)
        t1 == Append(trace, Ev("copy2"))
    IN  IF env.fault = "connect"
        THEN Result(FALSE, f1, Append(t1, Ev("connect_raise")), 0)
        ELSE IF env.fault = "BEGIN"
        THEN Result(FALSE, f1, t1 \o <<Ev("connect"), Ev("BEGIN_raise")>>, 0)
        ELSE
        LET acc0 == [rows |-> rows_of(f1[places_db]),
                     deleted_count |-> 0,
                     trace |-> t1 \o <<Ev("connect"), Ev("BEGIN")>>]
            fails == IF f1[places_db].kind = "db"
                     THEN env.failRows ELSE 1..Len(bookmark_ids)
            acc == delete_loop(acc0, bookmark_ids, 1, fails)
        IN  IF env.fault = "commit"
            THEN Result(FALSE, rollback(f1, acc.rows),
                        Append(acc.trace, Ev("commit_raise")), acc.deleted_count)
            ELSE Result(TRUE, commit(f1, acc.rows),
                        acc.trace \o <<Ev("commit"), Ev("close")>>,
                        acc.deleted_count)

\* variant: the running application is not checked for
remove_bookmarks_unguarded(f, bookmark_ids, env) ==
    IF Len(bookmark_ids) = 0
    THEN Result(FALSE, f, <<Ev("not_bookmark_ids")>>, 0)
    ELSE IF ~exists(f, places_db)
    THEN Result(FALSE, f, <<Ev("not_bookmark_ids"), Ev("exists")>>, 0)
    ELSE remove_bookmarks_try(f, bookmark_ids, env,
                <<Ev("not_bookmark_ids"), Ev("exists")>>)

\* variant: the store is looked for before the request is looked at
remove_bookmarks_exists_first(f, bookmark_ids, env) ==
    IF ~exists(f, places_db)
    THEN Result(FALSE, f, <<Ev("exists")>>, 0)
    ELSE IF Len(bookmark_ids) = 0
    THEN Result(FALSE, f, <<Ev("exists"), Ev("not_bookmark_ids")>>, 0)
    ELSE IF is_firefox_running(env.system, env.ps)
    THEN Result(FALSE, f,
                <<Ev("exists"), Ev("not_bookmark_ids"), Ev("is_firefox_running")>>, 0)
    ELSE remove_bookmarks_try(f, bookmark_ids, env,
                <<Ev("exists"), Ev("not_bookmark_ids"), Ev("is_firefox_running")>>)

\* lines 161-212
remove_bookmarks(f, bookmark_ids, env) ==
    IF Len(bookmark_ids) = 0
    THEN Result(FALSE, f, <<Ev("not_bookmark_ids")>>, 0)
    ELSE IF ~exists(f, places_db)
    THEN Result(FALSE, f, <<Ev("not_bookmark_ids"), Ev("exists")>>, 0)
    ELSE IF is_firefox_running(env.system, env.ps)
    THEN Result(FALSE, f,
                <<Ev("not_bookmark_ids"), Ev("exists"), Ev("is_firefox_running")>>, 0)
    ELSE remove_bookmarks_try(f, bookmark_ids, env,
                <<Ev("not_bookmark_ids"), Ev("exists"), Ev("is_firefox_running")>>)

\* the environments of one call: the host, the process listing, the step
\* that raises (if any) and the rows whose DELETE raises
\* Every host and listing is tried without a fault, and every fault on a
\* host where Firefox is not running (no fault point is reached otherwise).
Envs(bookmark_ids) ==
    {[system |-> s, ps |-> p, fault |-> "none", failRows |-> {}] :
        s \in Systems, p \in ProcessListings}
    \cup
    {[system |-> "Linux", ps |-> [raised |-> FALSE, output |-> str_sh],
      fault |-> x, failRows |-> r] :
        x \in {"none", "commit"}, r \in SUBSET (1..Len(bookmark_ids))}
    \cup
    {[system |-> "Linux", ps |-> [raised |-> FALSE, output |-> str_sh],
      fault |-> x, failRows |-> {}] :
        x \in Faults \ {"none", "commit"}}

-----------------------------------------------------------------------------
(* The content of places.sqlite and of the snapshot used by the model *)

str_http == <<"h", "t", "t", "p">>
url_a == <<"h", "t", "t", "p", ":", "a">>
url_B == <<"H", "T", "T", "P", ":", "b">>
url_js == <<"j", "s", ":", "c">>
url_httpx == <<"h", "t", "t", "p", "x">>

MozPlaces ==
    {[id |-> 10, url |-> url_a], [id |-> 11, url |-> url_B],
     [id |-> 12, url |-> url_js], [id |-> 13, url |-> url_httpx]}

\* type 1 is a bookmark, type 2 a folder; title may be NULL ({}) or ""
row1 == [id |-> 1, type |-> 1, fk |-> Some(10), title |-> Some("A")]
row2 == [id |-> 2, type |-> 1, fk |-> Some(11), title |-> None]
row3 == [id |-> 3, type |-> 1, fk |-> Some(12), title |-> Some("")]
row4 == [id |-> 4, type |-> 2, fk |-> Some(10), title |-> Some("F")]
row5 == [id |-> 5, type |-> 1, fk |-> Some(13), title |-> Some("X")]

FullDatabase == Database({row1, row2, row3, row4, row5}, MozPlaces)
\* a database without any qualifying row
QuietDatabase == Database({row3, row4}, MozPlaces)
\* a backup left behind by an earlier run
OldBackup == Database({row4}, MozPlaces)

\* JSON object fields: missing, null, or a value
Missing == [k |-> "missing"]
Null == [k |-> "null"]
Val(v) == [k |-> "val", v |-> v]
Node(children, uri, title) == [children |-> children, uri |-> uri, title |-> title]
Leaf(uri, title) == Node(Missing, Val(uri), title)

TreeNested ==
    Node(Val(<<Leaf(url_a, Val("A")),
               Node(Val(<<Leaf(url_B, Val("B")),
                          Node(Val(<<Leaf(url_httpx, Missing)>>), Missing, Val("inner")),
                          Leaf(url_js, Val("J"))>>),
                    Missing, Val("folder")),
               Node(Val(<<>>), Missing, Val("empty folder"))>>),
         Missing, Val("root"))
TreeTitles ==
    Node(Val(<<Leaf(url_a, Null), Leaf(url_httpx, Val(""))>>), Missing, Missing)
TreeNullChildren ==
    Node(Val(<<Leaf(url_a, Val("A")), Node(Null, Missing, Val("broken"))>>),
         Missing, Val("root"))

\* the bookmarkbackups directory: missing, without any .jsonlz4 file, or
\* with a latest .jsonlz4 file that is undecodable or decodes to a tree
Snapshots ==
    {Absent, [kind |-> "dir", latest |-> None],
     [kind |-> "dir", latest |-> Some([ok |-> FALSE])]}
    \cup {[kind |-> "dir", latest |-> Some([ok |-> TRUE, json |-> t])] :
            t \in {TreeNested, TreeTitles, TreeNullChildren}}

-----------------------------------------------------------------------------
(* extract_bookmarks_from_places_db *)

\* p.url LIKE 'http%'  (LIKE ignores the case of ASCII letters)
like_http(url) == startswith(lower(url), str_http)

\* title or "Untitled"
or_untitled(title) ==
    IF title = None \/ title = Some("") THEN "Untitled" ELSE Get(title)

\* the rows the query selects, as (title, url, bookmark_id, place_id)
query_rows(db) ==
    {<<b, p>> \in db.moz_bookmarks \X db.moz_places :
        /\ b.fk = Some(p.id)
        /\ b.type = 1
        /\ like_http(p.url)}

\* cursor.fetchall(): the selected rows in rowid order of moz_bookmarks
RECURSIVE fetchall(_)
fetchall(rows) ==
    IF rows = {} THEN <<>>
    ELSE LET first == CHOOSE x \in rows : \A y \in rows : x[1].id <= y[1].id
         IN  <<first>> \o fetchall(rows \ {first})

\* line 75: one result tuple
record_of(bp) ==
    <<Some(or_untitled(bp[1].title)), bp[2].url, Some(bp[1].id), Some(bp[2].id)>>

ExtractFaults == {"none", "connect", "execute", "fetchall"} \cup CopyFaults

\* lines 50-83; fault names the statement that raises
extract_bookmarks_from_places_db(f, fault) ==
    IF ~exists(f, places_db) THEN [ret |-> <<>>, fs |-> f]
    ELSE IF fault \in CopyFaults
    THEN [ret |-> <<>>, fs |-> copy2_failed(f, places_db, temp_db, fault)]
    ELSE
    LET f1 == copy2(f, places_db, temp_db)
    IN  IF fault \in {"connect", "execute", "fetchall"} \/ f1[temp_db].kind # "db"
        THEN [ret |-> <<>>, fs |-> f1]
        ELSE LET rows == fetchall(query_rows(f1[temp_db]))
             IN  [ret |-> [k \in 1..Len(rows) |-> record_of(rows[k])],
                  fs |-> remove(f1, temp_db)]

-----------------------------------------------------------------------------
(* extract_bookmarks_from_jsonlz4 *)

\* lines 116-122. The result is the list appended to bookmarks, and whether
\* an exception escaped (iterating null children, null uri).
RECURSIVE extract_urls(_)
RECURSIVE extract_children(_, _)
extract_children(children, k) ==
    IF k > Len(children) THEN [raised |-> FALSE, out |-> <<>>]
    ELSE LET head == extract_urls(children[k])
         IN  IF head.raised THEN head
             ELSE LET rest == extract_children(children, k + 1)
                  IN  [raised |-> rest.raised, out |-> head.out \o rest.out]
extract_urls(node) ==
    IF node.children # Missing
    THEN IF node.children = Null
         THEN [raised |-> TRUE, out |-> <<>>]
         ELSE extract_children(node.children.v, 1)
    ELSE IF node.uri # Missing
    THEN IF node.uri = Null
         THEN [raised |-> TRUE, out |-> <<>>]
         ELSE IF startswith(node.uri.v, str_http)
         THEN LET title == CASE node.title = Missing -> Some("Untitled")
                             [] node.title = Null -> None
                             [] OTHER -> Some(node.title.v)
              IN  [raised |-> FALSE,
                   out |-> <<<<title, node.uri.v, None, None>>>>]
         ELSE [raised |-> FALSE, out |-> <<>>]
    ELSE [raised |-> FALSE, out |-> <<>>]

\* lines 85-133; lz4 says whether the lz4 module can be imported
extract_bookmarks_from_jsonlz4(f, lz4) ==
    IF ~lz4 THEN <<>>
    ELSE IF ~exists(f, bookmarks_path) THEN <<>>
    ELSE IF f[bookmarks_path].latest = None THEN <<>>
    ELSE LET latest_backup == Get(f[bookmarks_path].latest)
         IN  IF ~latest_backup.ok THEN <<>>
             ELSE LET r == extract_urls(latest_backup.json)
                  IN  IF r.raised THEN <<>> ELSE r.out

-----------------------------------------------------------------------------
(* validate_url *)

StatusCodes == {200, 399, 400}

\* what requests.head / requests.get can do: return a response or raise
Responses ==
    {[raises |-> "", status_code |-> s] : s \in StatusCodes}
    \cup {[raises |-> e, status_code |-> 0] : e \in {"RequestException", "Exception"}}

\* the status codes validate_url is applied to on its own
ProbeStatusCodes == StatusCodes \cup {404}
ProbeResponses ==
    Responses \cup {[raises |-> "", status_code |-> s] : s \in ProbeStatusCodes}

Returned(ret, probes) == [ret |-> ret, probes |-> probes, raised |-> ""]

\* variant: only requests.exceptions.RequestException is caught
except_clauses_narrow(e, probes) ==
    IF e = "RequestException"
    THEN Returned(None, probes)
    ELSE [ret |-> None, probes |-> probes, raised |-> e]

\* lines 154-159: both except clauses return None; raised names an
\* exception that leaves the function
except_clauses(e, probes) ==
    IF e \in {"RequestException", "Exception"}
    THEN Returned(None, probes)
    ELSE [ret |-> None, probes |-> probes, raised |-> e]

\* variant: GET is tried only for a HEAD status above 400
validate_url_above_400(url, head, get) ==
    IF url = None \/ url = Some(<<>>) THEN Returned(None, <<>>)
    ELSE IF head.raises # "" THEN except_clauses(head.raises, <<"HEAD">>)
    ELSE IF head.status_code > 400
    THEN IF get.raises # ""
         THEN except_clauses(get.raises, <<"HEAD", "GET">>)
         ELSE Returned(Some(get.status_code), <<"HEAD", "GET">>)
    ELSE Returned(Some(head.status_code), <<"HEAD">>)

\* variant: the response of the GET request is not kept
validate_url_keeps_head(url, head, get) ==
    IF url = None \/ url = Some(<<>>) THEN Returned(None, <<>>)
    ELSE IF head.raises # "" THEN except_clauses(head.raises, <<"HEAD">>)
    ELSE IF head.status_code >= 400
    THEN IF get.raises # ""
         THEN except_clauses(get.raises, <<"HEAD", "GET">>)
         ELSE Returned(Some(head.status_code), <<"HEAD", "GET">>)
    ELSE Returned(Some(head.status_code), <<"HEAD">>)

\* lines 135-159. url is None or Some(string); head and get are what the two
\* requests would do; probes lists the requests issued.
validate_url(url, head, get) ==
    IF url = None \/ url = Some(<<>>) THEN Returned(None, <<>>)
    ELSE IF head.raises # "" THEN except_clauses(head.raises, <<"HEAD">>)
    ELSE IF head.status_code >= 400
    THEN IF get.raises # ""
         THEN except_clauses(get.raises, <<"HEAD", "GET">>)
         ELSE Returned(Some(get.status_code), <<"HEAD", "GET">>)
    ELSE Returned(Some(head.status_code), <<"HEAD">>)

-----------------------------------------------------------------------------
(* main: the validation loop and the menu *)

\* variant: every status below 400 counts as valid
validate_one_below_400(st, bookmark_tuple, head, get, exc) ==
    IF Len(bookmark_tuple) < 2 THEN st
    ELSE
    LET title == Some(or_untitled(bookmark_tuple[1]))
        url == bookmark_tuple[2]
        bookmark_id == IF Len(bookmark_tuple) > 2 THEN bookmark_tuple[3] ELSE None
        place_id == IF Len(bookmark_tuple) > 3 THEN bookmark_tuple[4] ELSE None
    IN  IF url = <<>> THEN st
        ELSE IF exc THEN st
        ELSE LET r == validate_url(Some(url), head, get)
                 status_code == r.ret
             IN  IF r.raised # "" THEN st
                 ELSE IF status_code # None /\ Get(status_code) < 400
                 THEN [st EXCEPT !.processed_count = @ + 1]
                 ELSE [invalid_bookmarks |->
                           Append(st.invalid_bookmarks,
                                  <<title, url, bookmark_id, place_id, status_code>>),
                       processed_count |-> st.processed_count + 1]

\* lines 291-326: one iteration of the loop over bookmarks. st holds
\* invalid_bookmarks and processed_count; exc says that handling the record
\* raises an unexpected Exception before the result is recorded.
validate_one(st, bookmark_tuple, head, get, exc) ==
    IF Len(bookmark_tuple) < 2 THEN st
    ELSE
    LET title == Some(or_untitled(bookmark_tuple[1]))
        url == bookmark_tuple[2]
        bookmark_id == IF Len(bookmark_tuple) > 2 THEN bookmark_tuple[3] ELSE None
        place_id == IF Len(bookmark_tuple) > 3 THEN bookmark_tuple[4] ELSE None
    IN  IF url = <<>> THEN st
        ELSE IF exc THEN st
        ELSE LET r == validate_url(Some(url), head, get)
                 status_code == r.ret
             IN  IF r.raised # "" THEN st
                 ELSE IF status_code = Some(200)
                 THEN [st EXCEPT !.processed_count = @ + 1]
                 ELSE [invalid_bookmarks |->
                           Append(st.invalid_bookmarks,
                                  <<title, url, bookmark_id, place_id, status_code>>),
                       processed_count |-> st.processed_count + 1]

\* line 365: [(b[2], b[3]) for b in invalid_bookmarks if b[2] is not None]
delete_all_request(invalid) ==
    LET keep == SelectSeq(invalid, LAMBDA b : b[3] # None)
    IN  [k \in 1..Len(keep) |-> <<keep[k][3], keep[k][4]>>]

\* lines 379-386: indices holds int(x) - 1 for every number typed
RECURSIVE select_request(_, _, _)
select_request(invalid, indices, k) ==
    IF k > Len(indices) THEN <<>>
    ELSE LET i == indices[k]
             rest == select_request(invalid, indices, k + 1)
         IN  IF 0 <= i /\ i < Len(invalid) /\ invalid[i + 1][3] # None
             THEN <<<<invalid[i + 1][3], invalid[i + 1][4]>>>> \o rest
             ELSE rest

-----------------------------------------------------------------------------
(* State machine *)

NoCall == [op |-> "none"]

\* longest selection typed for "Delete specific invalid bookmarks"
MaxSel == 2

RECURSIVE SeqsUpTo(_, _)
SeqsUpTo(S, n) ==
    IF n = 0 THEN {<<>>}
    ELSE LET shorter == SeqsUpTo(S, n - 1)
         IN  shorter \cup {Append(q, x) : q \in {r \in shorter : Len(r) = n - 1}, x \in S}

\* request pairs handed directly to remove_bookmarks
PairPool == {<<Some(1), Some(10)>>, <<Some(2), Some(11)>>, <<None, None>>}
Requests == SeqsUpTo(PairPool, MaxReq)

Idle ==
    /\ bookmarks = <<>>
    /\ using_places_db = FALSE
    /\ idx = 0
    /\ invalid_bookmarks = <<>>
    /\ processed_count = 0
    /\ call = NoCall
    /\ handled = <<>>
    /\ strategies = <<>>
    /\ last_passed = None

\* A profile directory before the program runs; the program is either run
\* (main) or its functions are called by another program (api).
Init ==
    /\ \E store \in {Absent, Garbage, FullDatabase, QuietDatabase},
          old \in {Absent, OldBackup},
          snap \in Snapshots :
          fs = [n \in {places_db, temp_db, backup_db, bookmarks_path} |->
                  CASE n = places_db -> store
                    [] n = temp_db -> Absent
                    [] n = backup_db -> old
                    [] n = bookmarks_path -> snap]
    /\ pc \in {"main", "api"}
    /\ Idle
    /\ vu = NoCall

RemoveCall(from, bookmark_ids, env, r) ==
    [op |-> "remove_bookmarks", from |-> from, bookmark_ids |-> bookmark_ids,
     pre |-> fs, ps_raised |-> env.ps.raised,
     running |-> is_firefox_running(env.system, env.ps),
     fault |-> env.fault, failRows |-> env.failRows,
     ret |-> r.ret, trace |-> r.trace, deleted_count |-> r.deleted_count]

\* lines 163-174: the call gets past the three preconditions; the history
\* then holds the store as it is before the call
passes(f, bookmark_ids, env) ==
    /\ Len(bookmark_ids) # 0
    /\ exists(f, places_db)
    /\ ~is_firefox_running(env.system, env.ps)
passed_after(bookmark_ids, env) ==
    IF passes(fs, bookmark_ids, env)
    THEN Some([pre |-> fs[places_db], copied |-> env.fault \notin CopyFaults])
    ELSE last_passed

\* lines 293-317: what happens to one record of the loop
outcome_of(bookmark_tuple, head, get, exc) ==
    IF Len(bookmark_tuple) < 2 THEN [kind |-> "malformed", status_code |-> None]
    ELSE IF bookmark_tuple[2] = <<>> THEN [kind |-> "empty_url", status_code |-> None]
    ELSE IF exc THEN [kind |-> "raised", status_code |-> None]
    ELSE LET r == validate_url(Some(bookmark_tuple[2]), head, get)
         IN  IF r.raised # "" THEN [kind |-> "raised", status_code |-> None]
             ELSE [kind |-> "probed", status_code |-> r.ret]

\* variant: the snapshot is read whatever places.sqlite returned
MainExtract_then_snapshot ==
    /\ pc = "main"
    /\ \E fault \in ExtractFaults :
        LET r == extract_bookmarks_from_places_db(fs, fault)
        IN  /\ fs' = r.fs
            /\ bookmarks' = r.ret
            /\ call' = [op |-> "extract_bookmarks_from_places_db", pre |-> fs,
                        fault |-> fault, ret |-> r.ret]
            /\ strategies' = Append(strategies,
                   [fn |-> "extract_bookmarks_from_places_db", count |-> Len(r.ret)])
    /\ pc' = "fallback"
    /\ using_places_db' = TRUE
    /\ idx' = 1
    /\ UNCHANGED <<invalid_bookmarks, processed_count, vu, handled, last_passed>>

\* lines 268-271
MainExtract ==
    /\ pc = "main"
    /\ \E fault \in ExtractFaults :
        LET r == extract_bookmarks_from_places_db(fs, fault)
        IN  /\ fs' = r.fs
            /\ bookmarks' = r.ret
            /\ call' = [op |-> "extract_bookmarks_from_places_db", pre |-> fs,
                        fault |-> fault, ret |-> r.ret]
            /\ pc' = IF r.ret = <<>> THEN "fallback" ELSE "validate"
            /\ strategies' = Append(strategies,
                   [fn |-> "extract_bookmarks_from_places_db", count |-> Len(r.ret)])
    /\ using_places_db' = TRUE
    /\ idx' = 1
    /\ UNCHANGED <<invalid_bookmarks, processed_count, vu, handled, last_passed>>

\* lines 273-283
MainFallback ==
    /\ pc = "fallback"
    /\ \E lz4 \in BOOLEAN :
        LET ret == extract_bookmarks_from_jsonlz4(fs, lz4)
        IN  /\ bookmarks' = ret
            /\ call' = [op |-> "extract_bookmarks_from_jsonlz4", pre |-> fs,
                        lz4 |-> lz4, ret |-> ret]
            /\ pc' = IF ret = <<>> THEN "done" ELSE "validate"
            /\ strategies' = Append(strategies,
                   [fn |-> "extract_bookmarks_from_jsonlz4", count |-> Len(ret)])
    /\ using_places_db' = FALSE
    /\ UNCHANGED <<fs, idx, invalid_bookmarks, processed_count, vu, handled,
                   last_passed>>

\* variant: an exception raised while a record is handled ends the loop
MainValidate_break ==
    /\ pc = "validate"
    /\ idx <= Len(bookmarks)
    /\ \E head \in Responses, get \in Responses, exc \in BOOLEAN :
        LET st == validate_one([invalid_bookmarks |-> invalid_bookmarks,
                                processed_count |-> processed_count],
                               bookmarks[idx], head, get, exc)
            o == outcome_of(bookmarks[idx], head, get, exc)
        IN  /\ invalid_bookmarks' = st.invalid_bookmarks
            /\ processed_count' = st.processed_count
            /\ handled' = Append(handled, o)
            /\ idx' = IF o.kind = "raised" THEN Len(bookmarks) + 1 ELSE idx + 1
    /\ UNCHANGED <<fs, pc, bookmarks, using_places_db, call, vu, strategies,
                   last_passed>>

\* lines 290-326, one record
MainValidate ==
    /\ pc = "validate"
    /\ idx <= Len(bookmarks)
    /\ \E head \in Responses, get \in Responses, exc \in BOOLEAN :
        LET st == validate_one([invalid_bookmarks |-> invalid_bookmarks,
                                processed_count |-> processed_count],
                               bookmarks[idx], head, get, exc)
        IN  /\ invalid_bookmarks' = st.invalid_bookmarks
            /\ processed_count' = st.processed_count
            /\ handled' = Append(handled, outcome_of(bookmarks[idx], head, get, exc))
    /\ idx' = idx + 1
    /\ UNCHANGED <<fs, pc, bookmarks, using_places_db, call, vu, strategies,
                   last_passed>>

\* lines 329-331 and 413-414: the loop is over
MainSummary ==
    /\ pc = "validate"
    /\ idx > Len(bookmarks)
    /\ pc' = IF invalid_bookmarks # <<>> THEN "menu" ELSE "done"
    /\ UNCHANGED <<fs, bookmarks, using_places_db, idx, invalid_bookmarks,
                   processed_count, call, vu, handled, strategies, last_passed>>

\* lines 351-366 and 374-388: the action is read and, for actions 1 and 2 on
\* records from places.sqlite, the request is built. Actions 3, 4, 5 and
\* a non-numeric answer change nothing in the profile directory.
MainMenu ==
    /\ pc = "menu"
    /\ \E action \in 1..5 :
        \/ /\ action \in {1, 2}
           /\ ~using_places_db
           /\ call' = [op |-> "remove_bookmark_instructions"]
           /\ pc' = "done"
        \/ /\ action = 1
           /\ using_places_db
           /\ LET bookmark_ids_to_delete == delete_all_request(invalid_bookmarks)
              IN  /\ call' = [op |-> "menu", action |-> 1,
                              bookmark_ids_to_delete |-> bookmark_ids_to_delete]
                  /\ pc' = IF bookmark_ids_to_delete # <<>> THEN "delete" ELSE "done"
        \/ /\ action = 2
           /\ using_places_db
           /\ \E typed \in SeqsUpTo(0..(Len(invalid_bookmarks) + 1), MaxSel) \ {<<>>} :
               LET indices == [k \in 1..Len(typed) |-> typed[k] - 1]
                   bookmark_ids_to_delete == select_request(invalid_bookmarks, indices, 1)
               IN  /\ call' = [op |-> "menu", action |-> 2,
                               bookmark_ids_to_delete |-> bookmark_ids_to_delete]
                   /\ pc' = IF bookmark_ids_to_delete # <<>> THEN "delete" ELSE "done"
        \/ /\ action \in {3, 4, 5}
           /\ call' = [op |-> "menu", action |-> action, bookmark_ids_to_delete |-> <<>>]
           /\ pc' = "done"
    /\ UNCHANGED <<fs, bookmarks, using_places_db, idx, invalid_bookmarks,
                   processed_count, vu, handled, strategies, last_passed>>

\* lines 367 and 389: main calls remove_bookmarks, reports and returns; its
\* local variables are gone
MainRemove ==
    /\ pc = "delete"
    /\ \E env \in Envs(call.bookmark_ids_to_delete) :
        LET r == remove_bookmarks(fs, call.bookmark_ids_to_delete, env)
        IN  /\ fs' = r.fs
            /\ call' = RemoveCall("main", call.bookmark_ids_to_delete, env, r)
            /\ last_passed' = passed_after(call.bookmark_ids_to_delete, env)
    /\ pc' = "returned"
    /\ bookmarks' = <<>>
    /\ using_places_db' = FALSE
    /\ idx' = 0
    /\ invalid_bookmarks' = <<>>
    /\ processed_count' = 0
    /\ handled' = <<>>
    /\ strategies' = <<>>
    /\ UNCHANGED vu

\* remove_bookmarks called by another program
ApiRemove ==
    /\ pc = "api"
    /\ \E bookmark_ids \in Requests :
        \E env \in Envs(bookmark_ids) :
            LET r == remove_bookmarks(fs, bookmark_ids, env)
            IN  /\ fs' = r.fs
                /\ call' = RemoveCall("api", bookmark_ids, env, r)
                /\ last_passed' = passed_after(bookmark_ids, env)
    /\ pc' = "api_returned"
    /\ UNCHANGED <<bookmarks, using_places_db, idx, invalid_bookmarks,
                   processed_count, vu, handled, strategies>>

\* the caller drops the result
ApiReturn ==
    /\ pc = "api_returned"
    /\ pc' = "api"
    /\ call' = NoCall
    /\ UNCHANGED <<fs, bookmarks, using_places_db, idx, invalid_bookmarks,
                   processed_count, vu, handled, strategies, last_passed>>

Next ==
    \/ MainExtract
    \/ MainFallback
    \/ MainValidate
    \/ MainSummary
    \/ MainMenu
    \/ MainRemove
    \/ ApiRemove
    \/ ApiReturn

Spec == Init /\ [][Next]_vars

-----------------------------------------------------------------------------
(* validate_url on its own: the inputs are drawn, then the function is applied *)

UrlPool == {None} \cup {Some(u) : u \in {<<>>, url_a, url_js}}

InitValidateUrl ==
    /\ fs = [n \in {places_db, temp_db, backup_db, bookmarks_path} |-> Absent]
    /\ pc = "validate_url"
    /\ Idle
    /\ \E url \in UrlPool, head \in ProbeResponses, get \in ProbeResponses :
        vu = [op |-> "input", url |-> url, head |-> head, get |-> get]

ValidateUrlCall ==
    /\ pc = "validate_url"
    /\ LET r == validate_url(vu.url, vu.head, vu.get)
       IN  vu' = [op |-> "validate_url", url |-> vu.url, head |-> vu.head,
                  get |-> vu.get, ret |-> r.ret, probes |-> r.probes,
                  raised |-> r.raised]
    /\ pc' = "returned"
    /\ UNCHANGED <<fs, bookmarks, using_places_db, idx, invalid_bookmarks,
                   processed_count, call, handled, strategies, last_passed>>

NextValidateUrl == ValidateUrlCall

SpecValidateUrl == InitValidateUrl /\ [][NextValidateUrl]_vars

-----------------------------------------------------------------------------
(* The validation loop on its own: any sequence of records is handed to it *)

\* longest sequence of records handed to the loop
MaxRecords == 2

\* records as the extraction functions build them, a record without URL and
\* a tuple that is too short
RecordPool ==
    {<<Some("A"), url_a, Some(1), Some(10)>>,
     <<None, url_httpx, None, None>>,
     <<Some("E"), <<>>, Some(3), Some(12)>>,
     <<Some("M")>>}

InitLoop ==
    /\ fs = [n \in {places_db, temp_db, backup_db, bookmarks_path} |-> Absent]
    /\ pc = "validate"
    /\ bookmarks \in SeqsUpTo(RecordPool, MaxRecords) \ {<<>>}   \* lines 282-284
    /\ using_places_db = TRUE
    /\ idx = 1
    /\ invalid_bookmarks = <<>>
    /\ processed_count = 0
    /\ call = NoCall
    /\ vu = NoCall
    /\ handled = <<>>
    /\ strategies = <<>>
    /\ last_passed = None

NextLoop ==
    \/ MainValidate
    \/ MainSummary

SpecLoop == InitLoop /\ [][NextLoop]_vars

-----------------------------------------------------------------------------
(* Properties *)

IsRemove == call.op = "remove_bookmarks"
InTrace(e) == \E k \in 1..Len(call.trace) : call.trace[k] = e
\* the three preconditions of the call held
Passed ==
    /\ call.bookmark_ids # <<>>
    /\ exists(call.pre, places_db)
    /\ ~call.running
\* the events of the loop over bookmark_ids
LoopEvents ==
    SelectSeq(call.trace, LAMBDA e : e.ev \in {"skip", "DELETE", "DELETE_raise"})
\* the rows of xs whose id no pair of the request with an index in ks names
Without(xs, ks) ==
    {r \in xs : \A k \in ks : call.bookmark_ids[k][1] # Some(r.id)}

\* C1: when is_firefox_running() returns True, remove_bookmarks called with a
\* non-empty request against an existing store returns False, leaves the
\* live store as it was and creates (or changes) no backup file.
RunningRefuses ==
    (IsRemove /\ call.running /\ call.bookmark_ids # <<>>
        /\ exists(call.pre, places_db))
    => /\ call.ret = FALSE
       /\ fs[places_db] = call.pre[places_db]
       /\ fs[backup_db] = call.pre[backup_db]

RunningRefusesWitness ==
    /\ IsRemove
    /\ call.running
    /\ ~call.ps_raised
    /\ call.bookmark_ids # <<>>
    /\ call.pre[places_db] = FullDatabase
    /\ call.pre[backup_db] = Absent
    /\ call.ret = FALSE
    /\ fs[backup_db] = Absent

\* C2: when the process-listing probe raises, is_firefox_running reports the
\* application as running, and remove_bookmarks returns False without
\* reaching the backup, the connection or any DELETE.
FailClosed ==
    (IsRemove /\ call.ps_raised)
    => /\ call.running
       /\ call.ret = FALSE
       /\ fs = call.pre
       /\ \A k \in 1..Len(call.trace) :
            call.trace[k].ev \in {"not_bookmark_ids", "exists", "is_firefox_running"}

FailClosedWitness ==
    /\ IsRemove
    /\ call.ps_raised
    /\ call.bookmark_ids # <<>>
    /\ call.pre[places_db] = FullDatabase
    /\ InTrace(Ev("is_firefox_running"))
    /\ call.ret = FALSE

\* C3: remove_bookmarks with an empty request returns False, creates no
\* backup and does not touch the store, and it does so before the store is
\* looked for and before the process probe: the preconditions are checked in
\* the order empty request, store exists, application not running.
EmptyRequestFirst ==
    IsRemove
    => /\ call.bookmark_ids = <<>>
            => /\ call.ret = FALSE
               /\ fs = call.pre
               /\ call.trace = <<Ev("not_bookmark_ids")>>
       /\ (call.bookmark_ids # <<>> /\ ~exists(call.pre, places_db))
            => /\ call.ret = FALSE
               /\ fs = call.pre
               /\ call.trace = <<Ev("not_bookmark_ids"), Ev("exists")>>
       /\ (call.bookmark_ids # <<>> /\ exists(call.pre, places_db))
            => SubSeq(call.trace, 1, 3)
                 = <<Ev("not_bookmark_ids"), Ev("exists"), Ev("is_firefox_running")>>

EmptyRequestFirstWitness ==
    /\ IsRemove
    /\ call.bookmark_ids = <<>>
    /\ ~exists(call.pre, places_db)
    /\ call.running
    /\ call.ret = FALSE
    /\ fs[backup_db] = Absent

\* C4: for a non-empty request of pairs with a bookmark_id, an existing
\* database and the application not running, a call in which no statement
\* raises leaves a backup equal to the store as it was before the call,
\* removes from moz_bookmarks exactly the rows whose id is in the request,
\* leaves every other row and all of moz_places as they were, and returns True.
DeletesExactlyRequested ==
    (IsRemove /\ Passed
        /\ \A k \in 1..Len(call.bookmark_ids) : call.bookmark_ids[k][1] # None
        /\ call.pre[places_db].kind = "db"
        /\ call.fault = "none" /\ call.failRows = {})
    => /\ call.ret = TRUE
       /\ fs[backup_db] = call.pre[places_db]
       /\ fs[places_db].kind = "db"
       /\ fs[places_db].moz_bookmarks
            = Without(call.pre[places_db].moz_bookmarks, 1..Len(call.bookmark_ids))
       /\ fs[places_db].moz_places = call.pre[places_db].moz_places

DeletesExactlyRequestedWitness ==
    /\ IsRemove
    /\ call.ret = TRUE
    /\ call.fault = "none" /\ call.failRows = {}
    /\ call.bookmark_ids = <<<<Some(2), Some(11)>>>>
    /\ call.pre[places_db] = FullDatabase
    /\ call.pre[backup_db] = OldBackup
    /\ fs[backup_db] = FullDatabase
    /\ fs[places_db] = Database({row1, row3, row4, row5}, MozPlaces)

\* C5: remove_bookmarks returns True exactly when the transaction commits. A
\* DELETE that raises ends neither the loop nor the transaction: every pair
\* of the request is still handled, the rows of the other pairs are removed,
\* the commit happens and True is returned.
TrueIffCommitted ==
    IsRemove
    => /\ call.ret = TRUE <=> InTrace(Ev("commit"))
       /\ InTrace(Ev("BEGIN")) => Len(LoopEvents) = Len(call.bookmark_ids)
       /\ (InTrace(Ev("BEGIN")) /\ call.fault = "none") => call.ret = TRUE
       /\ (call.ret = TRUE /\ call.pre[places_db].kind = "db")
            => fs[places_db].moz_bookmarks
                 = Without(call.pre[places_db].moz_bookmarks,
                           (1..Len(call.bookmark_ids)) \ call.failRows)

TrueIffCommittedWitness ==
    /\ IsRemove
    /\ call.ret = TRUE
    /\ call.failRows = {1}
    /\ call.bookmark_ids = <<<<Some(1), Some(10)>>, <<Some(2), Some(11)>>>>
    /\ call.pre[places_db] = FullDatabase
    /\ fs[places_db] = Database({row1, row3, row4, row5}, MozPlaces)

\* C6: when the backup cannot be made, or the transaction cannot be opened
\* or committed, remove_bookmarks returns False and the live store holds the
\* rows it held before the call; and no DELETE is executed before the backup
\* copy has completed.
FailureLeavesStore ==
    IsRemove
    => /\ (Passed /\ call.fault # "none")
            => /\ call.ret = FALSE
               /\ fs[places_db] = call.pre[places_db]
       /\ \A k \in 1..Len(call.trace) :
            call.trace[k].ev \in {"DELETE", "DELETE_raise"}
            => \E j \in 1..(k - 1) : call.trace[j] = Ev("copy2")

FailureLeavesStoreWitness ==
    /\ IsRemove
    /\ Passed
    /\ call.fault = "commit"
    /\ call.pre[places_db] = FullDatabase
    /\ InTrace(EvDelete(Some(1)))
    /\ call.ret = FALSE
    /\ fs[places_db] = FullDatabase

\* C7: a record whose bookmark_id is None is never deleted: main builds its
\* request only from invalid records that have a bookmark_id, builds none
\* when the records came from the snapshot, and remove_bookmarks executes no
\* DELETE for a pair whose bookmark_id is None.
NoneIsNeverDeleted ==
    /\ pc = "delete"
        => /\ using_places_db
           /\ \A k \in 1..Len(call.bookmark_ids_to_delete) :
                /\ call.bookmark_ids_to_delete[k][1] # None
                /\ \E j \in 1..Len(invalid_bookmarks) :
                     /\ invalid_bookmarks[j][3] = call.bookmark_ids_to_delete[k][1]
                     /\ invalid_bookmarks[j][4] = call.bookmark_ids_to_delete[k][2]
    /\ (IsRemove /\ call.from = "main")
        => \A k \in 1..Len(call.bookmark_ids) : call.bookmark_ids[k][1] # None
    /\ IsRemove
        => /\ \A k \in 1..Len(call.trace) :
                call.trace[k].ev = "DELETE" => call.trace[k].id # None
           /\ InTrace(Ev("BEGIN"))
                => \A k \in 1..Len(call.bookmark_ids) :
                     call.bookmark_ids[k][1] = None => LoopEvents[k] = Ev("skip")
    /\ call.op = "extract_bookmarks_from_jsonlz4"
        => \A k \in 1..Len(bookmarks) : bookmarks[k][3] = None

NoneIsNeverDeletedWitness ==
    /\ call.op = "remove_bookmark_instructions"
    /\ pc = "done"
    /\ ~using_places_db
    /\ invalid_bookmarks # <<>>
    /\ \A j \in 1..Len(invalid_bookmarks) : invalid_bookmarks[j][3] = None
    /\ fs[places_db] = FullDatabase

\* C8: temp_places.sqlite does not exist after
\* extract_bookmarks_from_places_db has returned, on every exit path.
TempCopyRemoved ==
    call.op = "extract_bookmarks_from_places_db" => ~exists(fs, temp_db)

\* C9: neither extraction function changes the live database file, whatever
\* it returns; only remove_bookmarks changes it.
ExtractionKeepsStore ==
    /\ [](call.op \in {"extract_bookmarks_from_places_db",
                       "extract_bookmarks_from_jsonlz4"}
            => fs[places_db] = call.pre[places_db])
    /\ [][fs'[places_db] # fs[places_db] => call'.op = "remove_bookmarks"]_vars

ExtractionKeepsStoreWitness ==
    /\ call.op = "extract_bookmarks_from_places_db"
    /\ Len(call.ret) = 3
    /\ call.pre[places_db] = FullDatabase
    /\ fs[places_db] = FullDatabase

\* C10 as stated: validate_url returns 200 whenever HEAD or GET would
\* respond 200, for every combination of the two outcomes.
Returns200IfEitherProbe200 ==
    (vu.op = "validate_url" /\ vu.url \notin {None, Some(<<>>)}
        /\ \/ (vu.head.raises = "" /\ vu.head.status_code = 200)
           \/ (vu.get.raises = "" /\ vu.get.status_code = 200))
    => vu.ret = Some(200)

\* C10 as amended: validate_url returns 200 exactly when HEAD completes with
\* 200, or HEAD completes with a status >= 400 and GET then completes with
\* 200. When HEAD completes with another status below 400 that status is
\* returned, and when HEAD raises None is returned, whatever GET would do.
Returns200Amended ==
    (vu.op = "validate_url" /\ vu.url \notin {None, Some(<<>>)})
    => /\ vu.ret = Some(200)
            <=> \/ (vu.head.raises = "" /\ vu.head.status_code = 200)
                \/ /\ vu.head.raises = "" /\ vu.head.status_code >= 400
                   /\ vu.get.raises = "" /\ vu.get.status_code = 200
       /\ (vu.head.raises = "" /\ vu.head.status_code < 400)
            => vu.ret = Some(vu.head.status_code)
       /\ vu.head.raises # "" => vu.ret = None

Returns200AmendedWitness ==
    /\ vu.op = "validate_url"
    /\ vu.url = Some(url_a)
    /\ vu.head.raises = "" /\ vu.head.status_code = 400
    /\ vu.get.raises = "" /\ vu.get.status_code = 200
    /\ vu.ret = Some(200)


\* C11: in validate_url the HEAD request is issued first; the GET request is
\* issued, once, exactly when HEAD completed with a status >= 400, and the
\* value returned is then the GET status (also when that is >= 400); when
\* HEAD completes with a status < 400 no GET is issued and the HEAD status is
\* returned. No call issues more than two requests.
HeadThenGetOnce ==
    vu.op = "validate_url"
    => /\ vu.probes # <<>> => vu.probes[1] = "HEAD"
       /\ vu.url \notin {None, Some(<<>>)} => vu.probes # <<>>
       /\ Len(vu.probes) <= 2
       /\ Len(SelectSeq(vu.probes, LAMBDA p : p = "HEAD")) <= 1
       /\ Len(SelectSeq(vu.probes, LAMBDA p : p = "GET"))
            = IF /\ vu.url \notin {None, Some(<<>>)}
                 /\ vu.head.raises = "" /\ vu.head.status_code >= 400
              THEN 1 ELSE 0
       /\ (vu.probes = <<"HEAD", "GET">> /\ vu.get.raises = "")
            => vu.ret = Some(vu.get.status_code)
       /\ (vu.probes # <<>> /\ vu.head.raises = "" /\ vu.head.status_code < 400)
            => /\ vu.ret = Some(vu.head.status_code)
               /\ vu.probes = <<"HEAD">>

HeadThenGetOnceWitness ==
    /\ vu.op = "validate_url"
    /\ vu.head.raises = "" /\ vu.head.status_code = 400
    /\ vu.get.raises = "" /\ vu.get.status_code = 404
    /\ vu.probes = <<"HEAD", "GET">>
    /\ vu.ret = Some(404)

\* C12: validate_url lets no failure leave it: a RequestException or any
\* other Exception raised by the HEAD or by the GET request yields None (a
\* HEAD status >= 400 followed by a raising GET yields None, not the HEAD
\* status), and a None or empty URL yields None without any request.
NoFailureEscapes ==
    vu.op = "validate_url"
    => /\ vu.raised = ""
       /\ vu.url \in {None, Some(<<>>)} => (vu.ret = None /\ vu.probes = <<>>)
       /\ (vu.url \notin {None, Some(<<>>)} /\ vu.head.raises # "")
            => vu.ret = None
       /\ (vu.url \notin {None, Some(<<>>)} /\ vu.head.raises = ""
             /\ vu.head.status_code >= 400 /\ vu.get.raises # "")
            => vu.ret = None

NoFailureEscapesWitness ==
    /\ vu.op = "validate_url"
    /\ vu.url = Some(url_a)
    /\ vu.head.raises = "" /\ vu.head.status_code = 404
    /\ vu.get.raises = "Exception"
    /\ vu.ret = None
    /\ vu.raised = ""


\* C13: the validation loop never aborts early. While the loop runs, every
\* record before the current position has been handled, whatever happened to
\* the earlier ones (a short tuple, an exception while probing), the loop can
\* always take its next step, and once it is over every record of the
\* sequence has been handled.
LoopNeverAborts ==
    /\ Len(handled) = (IF pc = "validate" THEN idx - 1 ELSE Len(bookmarks))
    /\ (pc = "validate" => ENABLED NextLoop)

\* the first record raised, the second was still probed, and the loop is over
LoopNeverAbortsWitness ==
    /\ pc # "validate"
    /\ Len(handled) = 2
    /\ handled[1].kind = "raised"
    /\ handled[2].kind = "probed"


\* the records among the first n that were probed with a result other than
\* 200, in input order, each with its title (the placeholder when the record
\* has none, line 302), url, bookmark id, place id and status
RECURSIVE probed_not_200(_)
probed_not_200(n) ==
    IF n = 0 THEN <<>>
    ELSE LET b == bookmarks[n]
             h == handled[n]
         IN  IF h.kind = "probed" /\ h.status_code # Some(200)
             THEN Append(probed_not_200(n - 1),
                         <<Some(or_untitled(b[1])), b[2], b[3], b[4], h.status_code>>)
             ELSE probed_not_200(n - 1)

\* C14: the invalid list is exactly the subsequence, in input order, of the
\* probed records whose status is not 200 (another integer or None), each
\* entry carrying title, url, bookmark id, place id and status; a record
\* probed with 200 is never in it. It holds after every iteration of the
\* loop, hence after the loop.
InvalidListIsNot200 ==
    pc \in {"validate", "menu", "done"} =>
        invalid_bookmarks = probed_not_200(Len(handled))

\* the loop is over: one record was probed with 399 and is listed, the other
\* was probed with 200 and is not
InvalidListIsNot200Witness ==
    /\ pc = "menu"
    /\ Len(handled) = 2
    /\ handled[1] = [kind |-> "probed", status_code |-> Some(399)]
    /\ handled[2] = [kind |-> "probed", status_code |-> Some(200)]
    /\ invalid_bookmarks = <<<<Some("Untitled"), url_httpx, None, None, Some(399)>>>>


\* positions of the loop at which something of the given kinds happened
Positions(kinds) == {i \in 1..Len(handled) : handled[i].kind \in kinds}

str_http_colon == <<"h", "t", "t", "p", ":">>
str_https_colon == <<"h", "t", "t", "p", "s", ":">>

\* the URL begins with the scheme http: or https: (schemes ignore case)
has_http_scheme(url) ==
    \/ startswith(lower(url), str_http_colon)
    \/ startswith(lower(url), str_https_colon)

\* the joined rows of bookmark type whose URL has an HTTP(S) scheme
http_bookmark_rows(db) ==
    {bp \in db.moz_bookmarks \X db.moz_places :
        /\ bp[1].fk = Some(bp[2].id)
        /\ bp[1].type = 1
        /\ has_http_scheme(bp[2].url)}

\* C15: an extraction from places.sqlite that completes yields exactly one
\* record (title, url, bookmark id, place id of the row) for every row of
\* bookmark type joined to a URL that begins with an HTTP(S) scheme, and no
\* record for any other row: not for folders, not for javascript: URLs, not
\* for strings that merely start with the letters http. Records excluded at
\* extraction never reach the validation loop.
ExtractsExactlyHttpRows ==
    /\ (/\ call.op = "extract_bookmarks_from_places_db"
        /\ call.fault = "none"
        /\ call.pre[places_db].kind = "db")
       => LET expected == {record_of(bp) : bp \in http_bookmark_rows(call.pre[places_db])}
          IN  /\ {call.ret[k] : k \in 1..Len(call.ret)} = expected
              /\ Len(call.ret) = Cardinality(expected)
    /\ (pc = "validate" /\ using_places_db)
       => \A k \in 1..Len(bookmarks) : has_http_scheme(bookmarks[k][2])


\* the URIs of the leaves of a tree that begin with an HTTP(S) scheme, in
\* tree order; a node is a folder when it has a non-empty children
\* collection, and an absent, null or empty collection has nothing below it
RECURSIVE http_leaves(_)
RECURSIVE http_leaves_of(_, _)
http_leaves_of(children, k) ==
    IF k > Len(children) THEN <<>>
    ELSE http_leaves(children[k]) \o http_leaves_of(children, k + 1)
http_leaves(node) ==
    LET below == IF node.children \in {Missing, Null} THEN <<>>
                 ELSE http_leaves_of(node.children.v, 1)
        is_folder == node.children \notin {Missing, Null} /\ node.children.v # <<>>
        self == IF ~is_folder /\ node.uri \notin {Missing, Null}
                   /\ has_http_scheme(node.uri.v)
                THEN <<node.uri.v>> ELSE <<>>
    IN  self \o below

\* C16: on any decoded tree, whatever its depth and whether the children of
\* a node are absent, empty, null or non-empty, the snapshot extraction
\* completes and returns one record for every leaf whose uri begins with an
\* HTTP(S) scheme, in tree order, with bookmark id and place id unset, and
\* no record for a folder.
SnapshotCollectsHttpLeaves ==
    (/\ call.op = "extract_bookmarks_from_jsonlz4"
     /\ call.lz4
     /\ exists(call.pre, bookmarks_path)
     /\ call.pre[bookmarks_path].latest # None
     /\ Get(call.pre[bookmarks_path].latest).ok)
    => LET leaves == http_leaves(Get(call.pre[bookmarks_path].latest).json)
       IN  /\ Len(call.ret) = Len(leaves)
           /\ \A k \in 1..Len(call.ret) :
                  /\ call.ret[k][2] = leaves[k]
                  /\ call.ret[k][3] = None
                  /\ call.ret[k][4] = None


\* C17: the extraction strategies are tried in a fixed order. The places.sqlite
\* extraction is always the first call; the snapshot extraction is called if
\* and only if the first call returned no record (missing file, failure or no
\* qualifying row), and then it is the second and last call; when the first
\* call returned a record the snapshot is not read and the records are marked
\* as coming from places.sqlite (using_places_db).
StrategyOrder ==
    LET n == Len(strategies)
    IN  /\ pc = "main" => n = 0
        /\ pc = "fallback" => n = 1 /\ strategies[1].count = 0
        /\ pc \in {"validate", "menu", "delete", "done"} =>
               /\ n \in {1, 2}
               /\ strategies[1].fn = "extract_bookmarks_from_places_db"
               /\ (n = 2 <=> strategies[1].count = 0)
               /\ (n = 2 => strategies[2].fn = "extract_bookmarks_from_jsonlz4")
               /\ (strategies[1].count > 0 => using_places_db)
               /\ (n = 2 => ~using_places_db)

\* places.sqlite returned records while a decodable snapshot with HTTP leaves
\* was there: only the first strategy ran
StrategyOrderWitness ==
    /\ pc = "validate"
    /\ using_places_db
    /\ Len(strategies) = 1
    /\ strategies[1].count > 0
    /\ fs[bookmarks_path] = [kind |-> "dir", latest |-> Some([ok |-> TRUE, json |-> TreeNested])]


\* C19: every record returned by either extraction function has a non-empty
\* title: where the row or the node has no title, a null title or the empty
\* string, the record has the placeholder "Untitled" instead.
TitlesNeverEmpty ==
    call.op \in {"extract_bookmarks_from_places_db", "extract_bookmarks_from_jsonlz4"}
    => \A k \in 1..Len(call.ret) : call.ret[k][1] \notin {None, Some("")}


\* C20 as stated: after any sequence of remove_bookmarks calls the backup
\* file, when it exists, equals places.sqlite as it was immediately before
\* the most recent call that passed the three preconditions, and a call
\* refused by a precondition leaves the backup as it was.
BackupIsPreStore ==
    /\ (last_passed # None /\ exists(fs, backup_db))
       => fs[backup_db] = Get(last_passed).pre
    /\ (IsRemove /\ ~Passed) => fs[backup_db] = call.pre[backup_db]

\* C20 amended: when the backup copy of the most recent call that passed the
\* three preconditions completed, the backup file equals places.sqlite as it
\* was immediately before that call, whatever backup was there before; a call
\* refused by a precondition leaves the backup as it was. (When the copy of
\* that call raised, the backup may be absent, the previous one or a
\* truncated file.)
BackupIsPreStoreAmended ==
    /\ (last_passed # None /\ Get(last_passed).copied)
       => fs[backup_db] = Get(last_passed).pre
    /\ (IsRemove /\ ~Passed) => fs[backup_db] = call.pre[backup_db]

\* a second call that passed has replaced the backup made by a first one:
\* the backup is the store that an earlier committed deletion left
BackupIsPreStoreAmendedWitness ==
    /\ IsRemove /\ Passed /\ InTrace(Ev("copy2"))
    /\ last_passed # None /\ Get(last_passed).copied
    /\ call.pre[backup_db] \notin {Absent, OldBackup, fs[backup_db]}
    /\ call.pre[backup_db].kind = "db"
    /\ fs[backup_db] = call.pre[places_db]


\* C21: after a committed remove_bookmarks call the deleted count it reports
\* equals the number of rows of moz_bookmarks that the call removed, for
\* every request: with duplicate pairs, and with pairs whose bookmark id
\* matches no row.
DeletedCountIsRowsRemoved ==
    (IsRemove /\ call.ret /\ InTrace(Ev("commit")))
    => call.deleted_count =
           Cardinality(rows_of(call.pre[places_db]) \ rows_of(fs[places_db]))

====
